---- MODULE Spec2Model ----
(***************************************************************************)
(* A model of idr.py: the peak merger (merge_peaks_in_contig, merge_peaks), *)
(* the rank builder (build_rank_vectors), the global IDR of calc_IDR, the   *)
(* output writer (write_results_to_file), the driver (main) and the loader  *)
(* (load_bed, load_samples).                                                *)
(*                                                                          *)
(* Signals are floats in the program.  The model keeps them exact: a signal *)
(* is a rational <<numerator, denominator>> in lowest terms, so that the    *)
(* mean aggregator (sum(items)/float(len(items))) is computed, not assumed. *)
(***************************************************************************)
EXTENDS Integers, Sequences, FiniteSets, TLC

VARIABLES
    pc,                         \* which call has been made
    last,                       \* the place in the pool of the last peak loaded
    s1_peaks, s2_peaks,         \* load_bed's grpd_peaks of the two samples
    oracle_pks,                 \* None or Some(grpd_peaks of --peak-list)
    pk_agg_fn,                  \* the aggregator: "sum", "mean", "min", "max"
    use_nonoverlapping_peaks,   \* args.use_nonoverlapping_peaks
    merged_peaks,               \* the merged peaks
    r1, r2,                     \* the rank vectors
    localIDRs, IDRs,            \* None or Some(vector), aligned with merged_peaks
    only_merge_peaks,           \* args.only_merge_peaks
    max_allowed_idr,            \* None or Some(args.idr_threshold)
    soft_max_allowed_idr,       \* the soft threshold of the writer
    output_file,                \* the lines printed to the output file
    log,                        \* the messages handed to idr.log by the writer
    num_peaks_passing_soft_thresh, \* the writer's counter when it ended
    em_invoked,                 \* whether fit_model_and_calc_idr was called
    args,                       \* None or Some(the arguments load_samples reads)
    signal_index,               \* load_samples' signal_index: None while unbound
    error                       \* the exception the call raised, or "none"

mergeVars == <<s1_peaks, s2_peaks, oracle_pks, pk_agg_fn, use_nonoverlapping_peaks>>

rankVars == <<r1, r2>>

idrVars == <<localIDRs, IDRs>>

writeVars == <<only_merge_peaks, max_allowed_idr, soft_max_allowed_idr, output_file,
               log, num_peaks_passing_soft_thresh, em_invoked>>

loadVars == <<args, signal_index>>

vars == <<pc, last, mergeVars, merged_peaks, rankVars, idrVars, writeVars, loadVars,
          error>>

----------------------------------------------------------------------------
(* Bounds of the model. *)

\* the most peaks (samples and oracle together) in the files merge_peaks is given
MaxPeaks == 4

\* the most peaks (samples and oracle together) merge_peaks_in_contig is given
MaxContigPeaks == 3

\* peak coordinates on the first key when merge_peaks is called
Coords == 0 .. 2

\* peak coordinates on the second key when merge_peaks is called
OtherCoords == 0 .. 1

\* peak coordinates when merge_peaks_in_contig is called
ContigCoords == 0 .. 3

\* the signal values of sample peaks
Signals == 0 .. 1

\* the (chrm, strand) keys of the peak buckets, in Python's order of tuples
Keys == << <<"chr1", "+">>, <<"chr1", "-">> >>

KeySet == {Keys[i] : i \in 1 .. Len(Keys)}

Aggregators == {"sum", "mean", "min", "max"}

----------------------------------------------------------------------------
(* Python's None, and an optional value. *)

None == <<>>

Some(x) == <<x>>

----------------------------------------------------------------------------
(* Exact arithmetic on signals: <<n, d>> with d > 0, in lowest terms. *)

RECURSIVE GCD(_, _)
GCD(a, b) == IF b = 0 THEN a ELSE GCD(b, a % b)

Rat(n, d) == LET g == GCD(n, d) IN IF g = 0 THEN <<0, 1>> ELSE <<n \div g, d \div g>>

RInt(n) == <<n, 1>>

RAdd(a, b) == Rat(a[1] * b[2] + b[1] * a[2], a[2] * b[2])

RDivInt(a, k) == Rat(a[1], a[2] * k)

RLt(a, b) == a[1] * b[2] < b[1] * a[2]

RLe(a, b) == a[1] * b[2] <= b[1] * a[2]

RMin(a, b) == IF RLt(b, a) THEN b ELSE a

RMax(a, b) == IF RLt(a, b) THEN b ELSE a

RECURSIVE RSum(_)
RSum(items) == IF items = <<>> THEN RInt(0) ELSE RAdd(items[1], RSum(Tail(items)))

RECURSIVE RMinSeq(_)
RMinSeq(items) ==
    IF Len(items) = 1 THEN items[1] ELSE RMin(items[1], RMinSeq(Tail(items)))

RECURSIVE RMaxSeq(_)
RMaxSeq(items) ==
    IF Len(items) = 1 THEN items[1] ELSE RMax(items[1], RMaxSeq(Tail(items)))

(* pk_agg_fn(items): the builtins sum, min, max and idr.py's mean.  The      *)
(* result is [err, val]: min and max raise ValueError on an empty sequence,  *)
(* mean divides by float(0).                                                 *)
ApplyAgg(fn, items) ==
    CASE fn = "sum"  -> [err |-> "none", val |-> RSum(items)]
      [] fn = "mean" -> IF items = <<>>
                        THEN [err |-> "ZeroDivisionError", val |-> RInt(0)]
                        ELSE [err |-> "none", val |-> RDivInt(RSum(items), Len(items))]
      [] fn = "min"  -> IF items = <<>>
                        THEN [err |-> "ValueError", val |-> RInt(0)]
                        ELSE [err |-> "none", val |-> RMinSeq(items)]
      [] fn = "max"  -> IF items = <<>>
                        THEN [err |-> "ValueError", val |-> RInt(0)]
                        ELSE [err |-> "none", val |-> RMaxSeq(items)]

----------------------------------------------------------------------------
(* merge_peaks_in_contig *)

Max(a, b) == IF a < b THEN b ELSE a

Min(a, b) == IF b < a THEN b ELSE a

\* the initial pk_start and pk_stop of a group
PkStartInit == 1000000000

PkStopInit == -1

\* (pk.start, pk.stop, pk.signal, sample_id) for pk in peaks
RECURSIVE Tagged(_, _)
Tagged(peaks, sample_id) ==
    IF peaks = <<>> THEN <<>>
    ELSE << <<peaks[1].start, peaks[1].stop, peaks[1].signal, sample_id>> >>
         \o Tagged(Tail(peaks), sample_id)

\* Python's order on tuples of numbers
RECURSIVE TupleLt(_, _)
TupleLt(a, b) ==
    IF a = <<>> THEN b # <<>>
    ELSE IF b = <<>> THEN FALSE
    ELSE IF a[1] # b[1] THEN a[1] < b[1]
    ELSE TupleLt(Tail(a), Tail(b))

RECURSIVE InsertInterval(_, _)
InsertInterval(x, s) ==
    IF s = <<>> THEN <<x>>
    ELSE IF TupleLt(x, s[1]) THEN <<x>> \o s
    ELSE <<s[1]>> \o InsertInterval(x, Tail(s))

\* sorted(...) of a sequence of intervals
RECURSIVE SortedIntervals(_)
SortedIntervals(s) ==
    IF s = <<>> THEN <<>>
    ELSE InsertInterval(s[Len(s)], SortedIntervals(SubSeq(s, 1, Len(s) - 1)))

\* all_intervals: the peaks of the two samples and of the oracle, sorted
AllIntervals(s1, s2, oracle) ==
    SortedIntervals(Tagged(s1, 1) \o Tagged(s2, 2)
                    \o (IF oracle = None THEN <<>> ELSE Tagged(oracle[1], 0)))

\* the grouping loop with x[0] <= curr_stop for its test
RECURSIVE SweepJoinsTouching(_, _, _, _)
SweepJoinsTouching(all, i, grpd_intervals, curr_stop) ==
    IF i > Len(all) THEN grpd_intervals
    ELSE LET x == all[i] IN
         IF x[1] <= curr_stop
         THEN SweepJoinsTouching(all, i + 1,
                    [grpd_intervals EXCEPT ![Len(grpd_intervals)] = Append(@, x)],
                    Max(x[2], curr_stop))
         ELSE SweepJoinsTouching(all, i + 1, Append(grpd_intervals, <<x>>), x[2])

\* the loop over all_intervals that groups them, from its i-th interval on
RECURSIVE Sweep(_, _, _, _)
Sweep(all, i, grpd_intervals, curr_stop) ==
    IF i > Len(all) THEN grpd_intervals
    ELSE LET x == all[i] IN
         IF x[1] < curr_stop
         THEN Sweep(all, i + 1,
                    [grpd_intervals EXCEPT ![Len(grpd_intervals)] = Append(@, x)],
                    Max(x[2], curr_stop))
         ELSE Sweep(all, i + 1, Append(grpd_intervals, <<x>>), x[2])

GrpdIntervals(all) == Sweep(all, 1, << <<>> >>, all[1][2])

IsFromSample(x, sample_id) == x[4] = sample_id

\* grpd_peaks of a group: the members from sample 1 and those from sample 2
GrpdPeaks(intervals) ==
    << SelectSeq(intervals, LAMBDA x : IsFromSample(x, 1)),
       SelectSeq(intervals, LAMBDA x : IsFromSample(x, 2)) >>

RECURSIVE PkBoundsOfAllMembers(_, _, _, _)
PkBoundsOfAllMembers(intervals, oracle, pk_start, pk_stop) ==
    IF intervals = <<>> THEN <<pk_start, pk_stop>>
    ELSE PkBoundsOfAllMembers(Tail(intervals), oracle, Min(intervals[1][1], pk_start),
                              Max(intervals[1][2], pk_stop))

RECURSIVE PkBoundsLastStop(_, _, _, _)
PkBoundsLastStop(intervals, oracle, pk_start, pk_stop) ==
    IF intervals = <<>> THEN <<pk_start, pk_stop>>
    ELSE LET x == intervals[1] IN
         IF oracle = None \/ x[4] = 0
         THEN PkBoundsLastStop(Tail(intervals), oracle, Min(x[1], pk_start), x[2])
         ELSE PkBoundsLastStop(Tail(intervals), oracle, pk_start, pk_stop)

\* pk_start, pk_stop of a group: over the oracle's members when an oracle is
\* given, over all members otherwise
RECURSIVE PkBounds(_, _, _, _)
PkBounds(intervals, oracle, pk_start, pk_stop) ==
    IF intervals = <<>> THEN <<pk_start, pk_stop>>
    ELSE LET x == intervals[1] IN
         IF oracle = None \/ x[4] = 0
         THEN PkBounds(Tail(intervals), oracle, Min(x[1], pk_start), Max(x[2], pk_stop))
         ELSE PkBounds(Tail(intervals), oracle, pk_start, pk_stop)

SkipsGroupLackingBoth(grpd_peaks, nonoverlapping) ==
    ~nonoverlapping /\ (grpd_peaks[1] = <<>> /\ grpd_peaks[2] = <<>>)

\* "skip regions that dont have a peak in all replicates"
SkipsGroup(grpd_peaks, nonoverlapping) ==
    ~nonoverlapping /\ (grpd_peaks[1] = <<>> \/ grpd_peaks[2] = <<>>)

RECURSIVE SignalsOf(_)
SignalsOf(pks) ==
    IF pks = <<>> THEN <<>> ELSE <<RInt(pks[1][3])>> \o SignalsOf(Tail(pks))

\* the loop over grpd_intervals that builds merged_pks: [err, pks]
RECURSIVE BuildMerged(_, _, _, _)
BuildMerged(groups, fn, oracle, nonoverlapping) ==
    IF groups = <<>> THEN [err |-> "none", pks |-> <<>>]
    ELSE LET intervals == groups[1]
             grpd_peaks == GrpdPeaks(intervals)
             bounds     == PkBounds(intervals, oracle, PkStartInit, PkStopInit)
             rest       == BuildMerged(Tail(groups), fn, oracle, nonoverlapping)
         IN
         IF bounds[2] = PkStopInit THEN rest
         ELSE IF SkipsGroup(grpd_peaks, nonoverlapping) THEN rest
         ELSE LET a1 == ApplyAgg(fn, SignalsOf(grpd_peaks[1]))
                  a2 == ApplyAgg(fn, SignalsOf(grpd_peaks[2]))
              IN
              IF a1.err # "none" THEN [err |-> a1.err, pks |-> <<>>]
              ELSE IF a2.err # "none" THEN [err |-> a2.err, pks |-> <<>>]
              ELSE IF rest.err # "none" THEN rest
              ELSE [err |-> "none",
                    pks |-> << <<bounds[1], bounds[2], a1.val, a2.val, grpd_peaks>> >>
                            \o rest.pks]

\* merge_peaks_in_contig(s1_peaks, s2_peaks, pk_agg_fn, oracle_pks,
\* use_nonoverlapping_peaks): [err, pks].  all_intervals[0] of no interval at
\* all is an IndexError.
merge_peaks_in_contig(s1, s2, fn, oracle, nonoverlapping) ==
    LET all_intervals == AllIntervals(s1, s2, oracle) IN
    IF all_intervals = <<>> THEN [err |-> "IndexError", pks |-> <<>>]
    ELSE BuildMerged(GrpdIntervals(all_intervals), fn, oracle, nonoverlapping)

----------------------------------------------------------------------------
(* merge_peaks *)

\* the keys of a defaultdict(list) that load_bed filled, in sorted order
RECURSIVE SortedKeys(_, _)
SortedKeys(present, i) ==
    IF i > Len(Keys) THEN <<>>
    ELSE (IF Keys[i] \in present THEN <<Keys[i]>> ELSE <<>>) \o SortedKeys(present, i + 1)

KeysOf(grpd) == {k \in KeySet : grpd[k] # <<>>}

Contigs(s1, s2, oracle) ==
    IF oracle # None THEN SortedKeys(KeysOf(oracle[1]), 1)
    ELSE SortedKeys(KeysOf(s1) \cup KeysOf(s2), 1)

\* the flag merge_peaks hands to merge_peaks_in_contig
FlagPassedDown(nonoverlapping) == FALSE

\* key + pk for pk in merged_pks
RECURSIVE WithKey(_, _)
WithKey(key, pks) ==
    IF pks = <<>> THEN <<>> ELSE <<key \o pks[1]>> \o WithKey(key, Tail(pks))

\* the loop over contigs: [err, pks]
RECURSIVE MergeContigs(_, _, _, _, _, _)
MergeContigs(contigs, s1, s2, fn, oracle, nonoverlapping) ==
    IF contigs = <<>> THEN [err |-> "none", pks |-> <<>>]
    ELSE LET key == contigs[1]
             contig_oracle_pks == IF oracle # None THEN Some(oracle[1][key]) ELSE None
             here == merge_peaks_in_contig(s1[key], s2[key], fn, contig_oracle_pks,
                                           FlagPassedDown(nonoverlapping))
             rest == MergeContigs(Tail(contigs), s1, s2, fn, oracle, nonoverlapping)
         IN
         IF here.err # "none" THEN here
         ELSE IF rest.err # "none" THEN rest
         ELSE [err |-> "none", pks |-> WithKey(key, here.pks) \o rest.pks]

\* the sort key of a merged peak: pk_agg_fn((x[4], x[5]))
SortKey(fn, x) == ApplyAgg(fn, <<x[5], x[6]>>).val

GoesBeforeAscending(fn, x, y) == RLt(SortKey(fn, x), SortKey(fn, y))

\* whether x goes before y in merged_peaks.sort(key=..., reverse=True)
GoesBefore(fn, x, y) == RLt(SortKey(fn, y), SortKey(fn, x))

RECURSIVE InsertMerged(_, _, _)
InsertMerged(fn, x, s) ==
    IF s = <<>> THEN <<x>>
    ELSE IF GoesBefore(fn, x, s[1]) THEN <<x>> \o s
    ELSE <<s[1]>> \o InsertMerged(fn, x, Tail(s))

RECURSIVE SortMerged(_, _)
SortMerged(fn, s) ==
    IF s = <<>> THEN <<>>
    ELSE InsertMerged(fn, s[Len(s)], SortMerged(fn, SubSeq(s, 1, Len(s) - 1)))

\* merge_peaks(s1_peaks, s2_peaks, pk_agg_fn, oracle_pks, use_nonoverlapping_peaks)
merge_peaks(s1, s2, fn, oracle, nonoverlapping) ==
    LET r == MergeContigs(Contigs(s1, s2, oracle), s1, s2, fn, oracle, nonoverlapping) IN
    IF r.err # "none" THEN r ELSE [err |-> "none", pks |-> SortMerged(fn, r.pks)]

----------------------------------------------------------------------------
(* The input files.  load_bed appends one peak per line to the list of its   *)
(* key; the peaks come from a pool, [key, origin, peak] with origin 1, 2    *)
(* (the samples) or 0 (the oracle).  merge_peaks_in_contig sorts what it is *)
(* given, so the order of the lines of a file is immaterial: the peaks are  *)
(* loaded in the order of the pool, and `last` is the place of the last one. *)

Intervals(coords) == {iv \in coords \X coords : iv[1] < iv[2]}

PeakOf(iv, signal) == [start |-> iv[1], stop |-> iv[2], signal |-> signal]

PoolPeaks(key, coords) ==
    {[key |-> key, origin |-> o, peak |-> PeakOf(iv, sg)] :
        o \in {1, 2}, iv \in Intervals(coords), sg \in Signals}
    \cup {[key |-> key, origin |-> 0, peak |-> PeakOf(iv, 1)] : iv \in Intervals(coords)}

RECURSIVE SetToSeq(_)
SetToSeq(S) ==
    IF S = {} THEN <<>>
    ELSE LET x == CHOOSE y \in S : TRUE IN <<x>> \o SetToSeq(S \ {x})

NoPeaks == [k \in KeySet |-> <<>>]

RECURSIVE CountPeaks(_, _)
CountPeaks(grpd, i) ==
    IF i > Len(Keys) THEN 0 ELSE Len(grpd[Keys[i]]) + CountPeaks(grpd, i + 1)

\* the peaks loaded so far
LoadedCount ==
    CountPeaks(s1_peaks, 1) + CountPeaks(s2_peaks, 1)
    + (IF oracle_pks = None THEN 0 ELSE CountPeaks(oracle_pks[1], 1))

\* grpd_peaks[(peak.chrm, peak.strand)].append(peak)
AppendPeak(grpd, key, peak) == [grpd EXCEPT ![key] = Append(@, peak)]

\* load_bed reads one more line of a file: a peak of the pool u, of which at
\* most `most` are loaded
LoadPeakFrom(u, most) ==
    /\ pc = "start"
    /\ LoadedCount < most
    /\ \E i \in last .. Len(u) :
          /\ u[i].origin = 0 => oracle_pks # None
          /\ s1_peaks' = IF u[i].origin = 1
                         THEN AppendPeak(s1_peaks, u[i].key, u[i].peak) ELSE s1_peaks
          /\ s2_peaks' = IF u[i].origin = 2
                         THEN AppendPeak(s2_peaks, u[i].key, u[i].peak) ELSE s2_peaks
          /\ oracle_pks' = IF u[i].origin = 0
                           THEN Some(AppendPeak(oracle_pks[1], u[i].key, u[i].peak))
                           ELSE oracle_pks
          /\ last' = i
    /\ UNCHANGED <<loadVars, pc, pk_agg_fn, use_nonoverlapping_peaks, merged_peaks, rankVars,
                   idrVars, writeVars, error>>

\* the scenario of two samples on one contig: S1 = [(10,20,5), (30,40,7)],
\* S2 = [(15,25,4), (100,110,9)]
ScenarioS1 == << [start |-> 10, stop |-> 20, signal |-> 5],
                 [start |-> 30, stop |-> 40, signal |-> 7] >>

ScenarioS2 == << [start |-> 15, stop |-> 25, signal |-> 4],
                 [start |-> 100, stop |-> 110, signal |-> 9] >>

OnFirstKey(peaks) == [k \in KeySet |-> IF k = Keys[1] THEN peaks ELSE <<>>]

PoolSeq == SetToSeq(PoolPeaks(Keys[1], Coords) \cup PoolPeaks(Keys[2], OtherCoords))

\* no line read yet, with or without a --peak-list; or the scenario's files
InitFiles ==
    /\ last = 1
    /\ pk_agg_fn = "sum"
    /\ use_nonoverlapping_peaks = FALSE
    /\ \/ /\ s1_peaks = NoPeaks
          /\ s2_peaks = NoPeaks
          /\ oracle_pks \in {None, Some(NoPeaks)}
       \/ /\ s1_peaks = OnFirstKey(ScenarioS1)
          /\ s2_peaks = OnFirstKey(ScenarioS2)
          /\ oracle_pks = None

\* the variables a call does not read or write
NoArgs == args = None /\ signal_index = None

NoRanks == r1 = <<>> /\ r2 = <<>>

NoIDRs == localIDRs = None /\ IDRs = None

NoWriter ==
    /\ only_merge_peaks = FALSE
    /\ max_allowed_idr = None
    /\ soft_max_allowed_idr = RInt(0)
    /\ output_file = <<>>
    /\ log = <<>>
    /\ num_peaks_passing_soft_thresh = 0
    /\ em_invoked = FALSE

Init ==
    /\ pc = "start"
    /\ merged_peaks = <<>>
    /\ error = "none"
    /\ InitFiles
    /\ NoRanks /\ NoIDRs /\ NoWriter
    /\ NoArgs

LoadPeak == LoadPeakFrom(PoolSeq, MaxPeaks)

\* a call of merge_peaks on the loaded files, as load_samples makes it
MergePeaks ==
    /\ pc = "start"
    /\ \E fn \in Aggregators, nonoverlapping \in BOOLEAN :
          LET r == merge_peaks(s1_peaks, s2_peaks, fn, oracle_pks, nonoverlapping) IN
          /\ pk_agg_fn' = fn
          /\ use_nonoverlapping_peaks' = nonoverlapping
          /\ merged_peaks' = r.pks
          /\ error' = r.err
    /\ pc' = "merge_peaks"
    /\ UNCHANGED <<loadVars, last, s1_peaks, s2_peaks, oracle_pks, rankVars, idrVars, writeVars>>

Next == LoadPeak \/ MergePeaks

Spec == Init /\ [][Next]_vars

----------------------------------------------------------------------------
(* A call of merge_peaks_in_contig on the peaks of one key. *)

ContigPoolSeq == SetToSeq(PoolPeaks(Keys[1], ContigCoords))

InitContig ==
    /\ pc = "start"
    /\ merged_peaks = <<>>
    /\ error = "none"
    /\ InitFiles
    /\ NoRanks /\ NoIDRs /\ NoWriter
    /\ NoArgs

LoadContigPeak == LoadPeakFrom(ContigPoolSeq, MaxContigPeaks)

ContigOracle(key) == IF oracle_pks = None THEN None ELSE Some(oracle_pks[1][key])

MergePeaksInContig ==
    /\ pc = "start"
    /\ \E fn \in Aggregators, nonoverlapping \in BOOLEAN :
          LET r == merge_peaks_in_contig(s1_peaks[Keys[1]], s2_peaks[Keys[1]], fn,
                                         ContigOracle(Keys[1]), nonoverlapping)
          IN /\ pk_agg_fn' = fn
             /\ use_nonoverlapping_peaks' = nonoverlapping
             /\ merged_peaks' = r.pks
             /\ error' = r.err
    /\ pc' = "merge_peaks_in_contig"
    /\ UNCHANGED <<loadVars, last, s1_peaks, s2_peaks, oracle_pks, rankVars, idrVars, writeVars>>

NextContig == LoadContigPeak \/ MergePeaksInContig

SpecContig == InitContig /\ [][NextContig]_vars

----------------------------------------------------------------------------
(* What the claims about merging speak of, stated without the sweep.        *)

\* the tagged peaks of one key, in file order
PeaksOfKey(key) ==
    Tagged(s1_peaks[key], 1) \o Tagged(s2_peaks[key], 2)
    \o (IF oracle_pks = None THEN <<>> ELSE Tagged(oracle_pks[1][key], 0))

\* two half-open intervals share a point
Overlaps(a, b) == a[1] < b[2] /\ b[1] < a[2]

\* the peaks (indices of all) joined to those of S by a chain of overlaps
RECURSIVE Reach(_, _)
Reach(all, S) ==
    LET T == S \cup {j \in 1 .. Len(all) : \E i \in S : Overlaps(all[i], all[j])} IN
    IF T = S THEN S ELSE Reach(all, T)

\* the overlap groups of the peaks all
OverlapGroups(all) == {Reach(all, {i}) : i \in 1 .. Len(all)}

HasOrigin(all, grp, origin) == \E i \in grp : all[i][4] = origin

MinStart(all, S) == CHOOSE v \in {all[i][1] : i \in S} : \A i \in S : v <= all[i][1]

MaxStop(all, S) == CHOOSE v \in {all[i][2] : i \in S} : \A i \in S : v >= all[i][2]

\* (key, merged_start, merged_stop, signal_1, signal_2) of the merged peaks
Merged5 == {SubSeq(merged_peaks[i], 1, 6) : i \in 1 .. Len(merged_peaks)}

MergedIntervals == {SubSeq(merged_peaks[i], 1, 4) : i \in 1 .. Len(merged_peaks)}

TotalGroups == LET n1 == Cardinality(OverlapGroups(PeaksOfKey(Keys[1])))
                   n2 == Cardinality(OverlapGroups(PeaksOfKey(Keys[2])))
               IN n1 + n2

IsScenario ==
    /\ s1_peaks = OnFirstKey(ScenarioS1)
    /\ s2_peaks = OnFirstKey(ScenarioS2)
    /\ oracle_pks = None

\* C1: without an oracle, merge_peaks called with use_nonoverlapping_peaks
\* returns one merged peak for every overlap group, and on the scenario
\* S1 = [(10,20,5), (30,40,7)], S2 = [(15,25,4), (100,110,9)] with sum it
\* returns (10,25,5,4), (30,40,7,0), (100,110,0,9); without the flag it returns
\* (10,25,5,4) alone.
C1_NonoverlappingKeepsEveryGroup ==
    (pc = "merge_peaks" /\ oracle_pks = None) =>
        /\ use_nonoverlapping_peaks =>
              /\ error = "none"
              /\ Len(merged_peaks) = TotalGroups
        /\ (IsScenario /\ pk_agg_fn = "sum") =>
              Merged5 =
                IF use_nonoverlapping_peaks
                THEN { Keys[1] \o <<10, 25, RInt(5), RInt(4)>>,
                       Keys[1] \o <<30, 40, RInt(7), RInt(0)>>,
                       Keys[1] \o <<100, 110, RInt(0), RInt(9)>> }
                ELSE { Keys[1] \o <<10, 25, RInt(5), RInt(4)>> }

\* the oracle peaks (key, index) that overlap at least one sample peak
OraclePeaksHit ==
    {kj \in KeySet \X (1 .. MaxPeaks + 4) :
        LET o == oracle_pks[1][kj[1]]
            j == kj[2]
        IN /\ j <= Len(o)
           /\ \E p \in {s1_peaks[kj[1]][i] : i \in 1 .. Len(s1_peaks[kj[1]])}
                    \cup {s2_peaks[kj[1]][i] : i \in 1 .. Len(s2_peaks[kj[1]])} :
                 Overlaps(<<o[j].start, o[j].stop>>, <<p.start, p.stop>>)}

\* C2, as stated: with an oracle, there is exactly one merged peak per oracle
\* peak that overlaps at least one sample peak, and its interval is that
\* oracle peak's own interval.
C2_OnePerOraclePeak ==
    (pc = "merge_peaks" /\ oracle_pks # None) =>
        /\ error = "none"
        /\ Len(merged_peaks) = Cardinality(OraclePeaksHit)
        /\ \A kj \in OraclePeaksHit :
              LET o == oracle_pks[1][kj[1]][kj[2]] IN
              kj[1] \o <<o.start, o.stop>> \in MergedIntervals

\* the overlap groups of a key that hold an oracle peak and a peak of each sample
FullGroups(key) ==
    LET all == PeaksOfKey(key) IN
    {grp \in OverlapGroups(all) : \A origin \in {0, 1, 2} : HasOrigin(all, grp, origin)}

\* (key, start, stop) over the oracle peaks of a group
OracleBounds(key, grp) ==
    LET all == PeaksOfKey(key)
        ora == {i \in grp : all[i][4] = 0}
    IN key \o <<MinStart(all, ora), MaxStop(all, ora)>>

ExpectedWithOracle ==
    UNION {{OracleBounds(key, grp) : grp \in FullGroups(key)} : key \in KeySet}

\* C2, amended: with an oracle and use_nonoverlapping_peaks unset,
\* merge_peaks returns exactly one merged peak per overlap group that holds
\* at least one oracle peak and at least one peak of each sample, and its
\* interval is the bounding interval of the oracle peaks of that group, not
\* the union of the group; groups with no oracle member produce no merged
\* peak.
C2_OnePerFullOracleGroup ==
    (pc = "merge_peaks" /\ oracle_pks # None /\ ~use_nonoverlapping_peaks) =>
        /\ error = "none"
        /\ MergedIntervals = ExpectedWithOracle
        /\ Len(merged_peaks) = Cardinality(ExpectedWithOracle)

\* the members a merged peak of merge_peaks records
MembersOf(x) == x[7][1] \o x[7][2]

Indices(s) == 1 .. Len(s)

\* a merged peak whose interval is the oracle's, narrower than its members',
\* while a group without an oracle peak was dropped
C2_Witness ==
    /\ pc = "merge_peaks" /\ oracle_pks # None /\ error = "none"
    /\ ~use_nonoverlapping_peaks
    /\ \E i \in Indices(merged_peaks) :
          LET x == merged_peaks[i]
              m == MembersOf(x)
          IN \/ x[3] > MinStart(m, Indices(m))
             \/ x[4] < MaxStop(m, Indices(m))
    /\ \E key \in KeySet :
          LET all == PeaksOfKey(key) IN
          \E grp \in OverlapGroups(all) : ~HasOrigin(all, grp, 0)

\* the overlap groups of the first key that lack a member of a sample
LoneGroups ==
    LET all == PeaksOfKey(Keys[1]) IN
    {grp \in OverlapGroups(all) : ~HasOrigin(all, grp, 1) \/ ~HasOrigin(all, grp, 2)}

\* C5: in merge_peaks_in_contig with use_nonoverlapping_peaks, under each of
\* sum, mean, min and max, a group with no member from a sample is kept with
\* that sample's signal 0, and no error is raised.
C5_MissingSampleGetsZero ==
    (/\ pc = "merge_peaks_in_contig"
     /\ use_nonoverlapping_peaks
     /\ oracle_pks = None
     /\ LoneGroups # {}) =>
        /\ error = "none"
        /\ Len(merged_peaks) = Cardinality(OverlapGroups(PeaksOfKey(Keys[1])))
        /\ \A i \in Indices(merged_peaks) :
              /\ merged_peaks[i][5][1] = <<>> => merged_peaks[i][3] = RInt(0)
              /\ merged_peaks[i][5][2] = <<>> => merged_peaks[i][4] = RInt(0)

\* agg(signal_1, signal_2) of a merged peak of merge_peaks
JointScore(x) ==
    CASE pk_agg_fn = "sum"  -> RAdd(x[5], x[6])
      [] pk_agg_fn = "mean" -> RDivInt(RAdd(x[5], x[6]), 2)
      [] pk_agg_fn = "min"  -> IF RLt(x[6], x[5]) THEN x[6] ELSE x[5]
      [] pk_agg_fn = "max"  -> IF RLt(x[5], x[6]) THEN x[6] ELSE x[5]

\* C6: the list merge_peaks returns is in descending order of
\* agg(signal_1, signal_2): each merged peak's score is at least the next one's.
C6_SortedByJointScore ==
    pc = "merge_peaks" =>
        \A i \in Indices(merged_peaks) :
            i < Len(merged_peaks) =>
                RLe(JointScore(merged_peaks[i + 1]), JointScore(merged_peaks[i]))

\* merged peaks of both keys, with different scores, those of the second key first
C6_Witness ==
    /\ pc = "merge_peaks" /\ error = "none"
    /\ Len(merged_peaks) >= 2
    /\ SubSeq(merged_peaks[1], 1, 2) = Keys[2]
    /\ SubSeq(merged_peaks[Len(merged_peaks)], 1, 2) = Keys[1]
    /\ RLt(JointScore(merged_peaks[Len(merged_peaks)]), JointScore(merged_peaks[1]))

\* C7: with no oracle and use_nonoverlapping_peaks unset, every merged peak
\* of merge_peaks has a member from sample 1 and a member from sample 2.
C7_EveryMergedPeakHasBothSamples ==
    (pc = "merge_peaks" /\ oracle_pks = None /\ ~use_nonoverlapping_peaks) =>
        \A i \in Indices(merged_peaks) :
            /\ merged_peaks[i][7][1] # <<>>
            /\ merged_peaks[i][7][2] # <<>>

\* a merged peak is returned while a group of one sample alone was dropped
C7_Witness ==
    /\ pc = "merge_peaks" /\ oracle_pks = None /\ ~use_nonoverlapping_peaks
    /\ error = "none"
    /\ merged_peaks # <<>>
    /\ Len(merged_peaks) < TotalGroups

\* C8: without an oracle, merged_start is the least start and merged_stop the
\* greatest stop of the members the merged peak records.
C8_IntervalIsBoundingInterval ==
    (pc = "merge_peaks_in_contig" /\ oracle_pks = None) =>
        \A i \in Indices(merged_peaks) :
            LET x == merged_peaks[i]
                m == x[5][1] \o x[5][2]
            IN /\ m # <<>>
               /\ x[1] = MinStart(m, Indices(m))
               /\ x[2] = MaxStop(m, Indices(m))

\* a merged peak of several members, none of which spans it, and one whose
\* last member does not end it
C8_Witness ==
    /\ pc = "merge_peaks_in_contig" /\ oracle_pks = None /\ error = "none"
    /\ \E i \in Indices(merged_peaks) :
          LET x == merged_peaks[i]
              m == x[5][1] \o x[5][2]
          IN \A j \in Indices(m) : m[j][1] # x[1] \/ m[j][2] # x[2]
    /\ \E i \in Indices(merged_peaks) :
          LET x == merged_peaks[i]
              m == x[5][1] \o x[5][2]
          IN m[Len(m)][2] < x[2]

\* all_intervals and grpd_intervals of the call on the peaks of the first key
ContigIntervals == AllIntervals(s1_peaks[Keys[1]], s2_peaks[Keys[1]], None)

ContigGroups == GrpdIntervals(ContigIntervals)

\* the places in all_intervals of the members of each group, the groups
\* being consecutive runs of all_intervals
RECURSIVE GroupPlaces(_, _)
GroupPlaces(groups, offset) ==
    IF groups = <<>> THEN <<>>
    ELSE << {offset + j : j \in 1 .. Len(groups[1])} >>
         \o GroupPlaces(Tail(groups), offset + Len(groups[1]))

RECURSIVE Flatten(_)
Flatten(groups) == IF groups = <<>> THEN <<>> ELSE groups[1] \o Flatten(Tail(groups))

\* the members of the group of place i that come before place i
EarlierInGroup(places, i) ==
    {j \in 1 .. i - 1 : \E g \in Indices(places) : j \in places[g] /\ i - 1 \in places[g]}

SameGroup(places, i, j) == \E g \in Indices(places) : i \in places[g] /\ j \in places[g]

\* C11: without an oracle, two peaks of a contig are in the same group of the
\* sweep exactly when a chain of overlapping half-open intervals joins them;
\* a peak that starts where the running group stops starts a new group; the
\* groups hold every peak exactly once; the bounding intervals of distinct
\* groups are disjoint.
C11_GroupsAreOverlapChains ==
    (pc = "merge_peaks_in_contig" /\ oracle_pks = None /\ ContigIntervals # <<>>) =>
        LET all    == ContigIntervals
            groups == ContigGroups
            places == GroupPlaces(groups, 0)
        IN /\ \A i, j \in Indices(all) :
                  SameGroup(places, i, j) <=> j \in Reach(all, {i})
           /\ \A i \in Indices(all) :
                  (i > 1 /\ all[i][1] = MaxStop(all, EarlierInGroup(places, i)))
                      => ~SameGroup(places, i, i - 1)
           /\ Flatten(groups) = all
           /\ \A g \in Indices(groups) : groups[g] # <<>>
           /\ \A g, h \in Indices(groups) :
                  g < h => MaxStop(all, places[g]) <= MinStart(all, places[h])

\* a group of several peaks, then a peak that starts where that group stops
\* and is put in a group of its own
C11_Witness ==
    /\ pc = "merge_peaks_in_contig" /\ oracle_pks = None
    /\ ContigIntervals # <<>>
    /\ LET all    == ContigIntervals
           places == GroupPlaces(ContigGroups, 0)
       IN \E i \in Indices(all) :
             /\ i > 2
             /\ SameGroup(places, i - 1, i - 2)
             /\ all[i][1] = MaxStop(all, EarlierInGroup(places, i))
             /\ ~SameGroup(places, i, i - 1)

----------------------------------------------------------------------------
(* build_rank_vectors *)

\* the most merged peaks build_rank_vectors is given
MaxRanked == 3

\* the values numpy.random.random draws for the ties
Draws == 0 .. 2

\* the signals of the merged peaks build_rank_vectors is given
RankedSignals == 0 .. 1

\* s1[i], s2[i] = x[4], x[5]
SignalVector(merged, field) == [i \in 1 .. Len(merged) |-> merged[i][field]]

\* whether index i goes before index j in numpy.lexsort((draws, s)): by s,
\* then by draws; the sort is stable
LexBefore(s, draws, i, j) ==
    \/ RLt(s[i + 1], s[j + 1])
    \/ (s[i + 1] = s[j + 1] /\ draws[i + 1] < draws[j + 1])

\* numpy.lexsort((draws, s)): the indices 0 .. N-1 in sorted order, the first
\* n of them placed
RECURSIVE Lexsort(_, _, _)
Lexsort(s, draws, n) ==
    IF n = 0 THEN <<>>
    ELSE LET before == Lexsort(s, draws, n - 1) IN
         \* index n - 1 goes after every index placed before it that it does
         \* not precede
         LET RECURSIVE Place(_)
             Place(perm) ==
                 IF perm = <<>> THEN <<n - 1>>
                 ELSE IF LexBefore(s, draws, n - 1, perm[Len(perm)])
                      THEN Place(SubSeq(perm, 1, Len(perm) - 1)) \o <<perm[Len(perm)]>>
                      ELSE perm \o <<n - 1>>
         IN Place(before)

ArgsortOmitted(a) == a

\* a.argsort() of a vector of distinct integers: where each index stands in
\* the sorted order
Argsort(a) ==
    [j \in 1 .. Len(a) |->
        (CHOOSE i \in 1 .. Len(a) :
            Cardinality({k \in 1 .. Len(a) : a[k] < a[i]}) = j - 1) - 1]

\* numpy.lexsort((numpy.random.random(len(s)), s)).argsort()
RankVector(s, draws) == Argsort(Lexsort(s, draws, Len(s)))

\* the draws that can order the ties of s: none matter when s has no ties
DrawsOf(s) ==
    IF \A i, j \in 1 .. Len(s) : i # j => s[i] # s[j]
    THEN {[i \in 1 .. Len(s) |-> 0]}
    ELSE [1 .. Len(s) -> Draws]

\* a merged peak at the i-th place of a contig, with signals a and b
MergedAt(i, a, b) ==
    Keys[1] \o <<2 * i, 2 * i + 1, RInt(a), RInt(b),
                 << << <<2 * i, 2 * i + 1, a, 1>> >>, << <<2 * i, 2 * i + 1, b, 2>> >> >> >>

RankedInputs ==
    UNION {{[i \in 1 .. n |-> MergedAt(i, sg[i][1], sg[i][2])] :
              sg \in [1 .. n -> RankedSignals \X RankedSignals]} : n \in 0 .. MaxRanked}

NoMerge ==
    /\ last = 1
    /\ s1_peaks = NoPeaks
    /\ s2_peaks = NoPeaks
    /\ oracle_pks = None
    /\ pk_agg_fn = "sum"
    /\ use_nonoverlapping_peaks = FALSE

InitRank ==
    /\ pc = "start"
    /\ merged_peaks \in RankedInputs
    /\ error = "none"
    /\ NoMerge /\ NoRanks /\ NoIDRs /\ NoWriter
    /\ NoArgs

BuildRankVectors ==
    /\ pc = "start"
    /\ LET s1 == SignalVector(merged_peaks, 5)
           s2 == SignalVector(merged_peaks, 6)
       IN \E d1 \in DrawsOf(s1), d2 \in DrawsOf(s2) :
             /\ r1' = RankVector(s1, d1)
             /\ r2' = RankVector(s2, d2)
    /\ pc' = "build_rank_vectors"
    /\ UNCHANGED <<loadVars, last, mergeVars, merged_peaks, idrVars, writeVars, error>>

NextRank == BuildRankVectors

SpecRank == InitRank /\ [][NextRank]_vars

IsPermutation(r) ==
    /\ \A i \in 1 .. Len(r) : r[i] \in 0 .. Len(r) - 1
    /\ \A i, j \in 1 .. Len(r) : i # j => r[i] # r[j]

PreservesOrder(s, r) ==
    \A i, j \in 1 .. Len(s) : RLt(s[i], s[j]) => r[i] < r[j]

\* C9: whatever the draws, r1 and r2 are permutations of 0 .. N-1, and a
\* merged peak of lower signal in a replicate has the lower rank in it.
C9_RanksArePermutationsPreservingOrder ==
    pc = "build_rank_vectors" =>
        /\ Len(r1) = Len(merged_peaks) /\ Len(r2) = Len(merged_peaks)
        /\ IsPermutation(r1) /\ IsPermutation(r2)
        /\ PreservesOrder(SignalVector(merged_peaks, 5), r1)
        /\ PreservesOrder(SignalVector(merged_peaks, 6), r2)

\* three merged peaks, a tie in replicate 1 ordered against the order of the
\* list, and a lower signal after a higher one
C9_Witness ==
    /\ pc = "build_rank_vectors"
    /\ Len(merged_peaks) = 3
    /\ merged_peaks[1][5] = merged_peaks[2][5] /\ r1[1] > r1[2]
    /\ RLt(merged_peaks[3][5], merged_peaks[1][5]) /\ r1[3] = 0

----------------------------------------------------------------------------
(* calc_IDR, from the local IDR on *)

\* the most peaks calc_IDR is given
MaxIDRs == 4

\* the local IDRs are the multiples of 1/GridSteps in [0, 1]
GridSteps == 2

Grid == {Rat(k, GridSteps) : k \in 0 .. GridSteps}

\* localIDR.argsort(): an order of the indices 0 .. N-1 that sorts the vector;
\* numpy's default sort is not stable, so ties come in any order
Argsorts(v) ==
    {o \in [1 .. Len(v) -> 0 .. Len(v) - 1] :
        /\ \A i, j \in 1 .. Len(v) : i # j => o[i] # o[j]
        /\ \A i \in 1 .. Len(v) - 1 : RLe(v[o[i] + 1], v[o[i + 1] + 1])}

\* localIDR[local_idr_order]
Take(v, order) == [i \in 1 .. Len(order) |-> v[order[i] + 1]]

\* rankdata(v, method='max'): the number of elements not greater than v[i]
Rankdata(v) ==
    [i \in 1 .. Len(v) |-> Cardinality({j \in 1 .. Len(v) : RLe(v[j], v[i])})]

\* ordered_local_idr[:rank].mean()
MeanOfFirst(v, rank) == RDivInt(RSum(SubSeq(v, 1, rank)), rank)

ScatterOmitted(v, order) == v

\* numpy.array(IDR)[local_idr_order.argsort()]
Scatter(v, order) == Take(v, Argsort(order))

\* the global IDRs of the local IDRs, under one outcome of the argsort
GlobalIDR(localIDR, local_idr_order) ==
    LET ordered_local_idr       == Take(localIDR, local_idr_order)
        ordered_local_idr_ranks == Rankdata(ordered_local_idr)
        IDR == [i \in 1 .. Len(localIDR) |->
                   MeanOfFirst(ordered_local_idr, ordered_local_idr_ranks[i])]
    IN Scatter(IDR, local_idr_order)

LocalIDRInputs == UNION {[1 .. n -> Grid] : n \in 0 .. MaxIDRs}

InitIDR ==
    /\ pc = "start"
    /\ merged_peaks = <<>>
    /\ error = "none"
    /\ \E v \in LocalIDRInputs : localIDRs = Some(v)
    /\ IDRs = None
    /\ NoMerge /\ NoRanks /\ NoWriter
    /\ NoArgs

CalcIDR ==
    /\ pc = "start"
    /\ \E local_idr_order \in Argsorts(localIDRs[1]) :
          IDRs' = Some(GlobalIDR(localIDRs[1], local_idr_order))
    /\ pc' = "calc_IDR"
    /\ UNCHANGED <<loadVars, last, mergeVars, merged_peaks, rankVars, localIDRs, writeVars, error>>

NextIDR == CalcIDR

SpecIDR == InitIDR /\ [][NextIDR]_vars

\* the mean of the local IDRs not greater than the i-th
MeanUpTo(v, i) ==
    LET upto == SelectSeq(v, LAMBDA x : RLe(x, v[i])) IN RDivInt(RSum(upto), Len(upto))

\* C10: for local IDRs in [0, 1], the global IDRs lie in [0, 1], the i-th
\* global IDR is that of the i-th peak (the mean of the local IDRs not
\* greater than its own), peaks of equal local IDR have equal global IDR, and
\* the global IDR does not decrease as the local IDR increases.
C10_GlobalIDRBoundedAlignedMonotone ==
    pc = "calc_IDR" =>
        LET l == localIDRs[1]
            g == IDRs[1]
        IN /\ Len(g) = Len(l)
           /\ \A i \in 1 .. Len(l) :
                 /\ RLe(RInt(0), g[i]) /\ RLe(g[i], RInt(1))
                 /\ g[i] = MeanUpTo(l, i)
           /\ \A i, j \in 1 .. Len(l) :
                 /\ l[i] = l[j] => g[i] = g[j]
                 /\ RLe(l[i], l[j]) => RLe(g[i], g[j])

\* local IDRs out of order and with a tie, and global IDRs that differ
C10_Witness ==
    /\ pc = "calc_IDR"
    /\ LET l == localIDRs[1]
           g == IDRs[1]
       IN /\ Len(l) >= 3
          /\ RLt(l[2], l[1])
          /\ l[1] = l[3]
          /\ RLt(g[2], g[1])
          /\ RLt(RInt(0), g[2])

----------------------------------------------------------------------------
(* write_results_to_file *)

\* the most merged peaks the writer is given when called on its own
MaxWritten == 3

MinStartOf(pks) == CHOOSE v \in {pks[i][1] : i \in 1 .. Len(pks)} :
                       \A i \in 1 .. Len(pks) : v <= pks[i][1]

MaxStopOf(pks) == CHOOSE v \in {pks[i][2] : i \in 1 .. Len(pks)} :
                      \A i \in 1 .. Len(pks) : v >= pks[i][2]

\* the start and stop fields of a replicate in an output line
StartStop(pks) == IF Len(pks) = 0 THEN <<-1, -1>> ELSE <<MinStartOf(pks), MaxStopOf(pks)>>

\* build_idr_output_line: the fields of the line, in order (the values, not
\* their "%i" and "%.5f" text)
build_idr_output_line(contig, strand, signals, merged_peak, IDR, localIDR) ==
    <<contig>> \o StartStop(merged_peak[1]) \o <<signals[1]>>
               \o StartStop(merged_peak[2]) \o <<signals[2]>>
               \o <<IDR, localIDR, strand>>

OutputLine(x, IDR, localIDR) ==
    build_idr_output_line(x[1], x[2], <<x[5], x[6]>>, x[7], IDR, localIDR)

\* the loop over zip(localIDRs, IDRs, merged_peaks), from the i-th peak on:
\* [lines, hard, soft]
RECURSIVE WriteLoop(_, _, _, _, _, _)
WriteLoop(merged, max_idr, soft_idr, local, global, i) ==
    IF i > Len(merged) THEN [lines |-> <<>>, hard |-> 0, soft |-> 0]
    ELSE LET rest == WriteLoop(merged, max_idr, soft_idr, local, global, i + 1) IN
         IF max_idr # None /\ RLt(max_idr[1], global[i]) THEN rest
         ELSE [lines |-> <<OutputLine(merged[i], global[i], local[i])>> \o rest.lines,
               hard  |-> rest.hard + 1,
               soft  |-> rest.soft + (IF RLe(global[i], soft_idr) THEN 1 ELSE 0)]

Ones(n) == [i \in 1 .. n |-> RInt(1)]

\* write_results_to_file(merged_peaks, output_file, max_allowed_idr,
\* soft_max_allowed_idr, localIDRs, IDRs): [err, lines, log, soft].  After the
\* loop the first message divides by len(merged_peaks); the second reads
\* args and num_peaks_passing_thresh, names the function does not have.
write_results_to_file(merged, max_idr, soft_idr, local, global) ==
    IF (local = None \/ global = None) /\ (local # None \/ global # None)
    THEN [err |-> "AssertionError", lines |-> <<>>, log |-> <<>>, soft |-> 0]
    ELSE LET l == IF local = None THEN Ones(Len(merged)) ELSE local[1]
             g == IF global = None THEN Ones(Len(merged)) ELSE global[1]
             w == WriteLoop(merged, max_idr, soft_idr, l, g, 1)
         IN
         IF Len(merged) = 0
         THEN [err |-> "ZeroDivisionError", lines |-> w.lines, log |-> <<>>,
               soft |-> w.soft]
         ELSE [err |-> "NameError", lines |-> w.lines,
               log |-> << <<"Number of reported peaks", w.hard, Len(merged)>> >>,
               soft |-> w.soft]

\* a merged peak with members of sample 1 alone
LoneAt(i, a) ==
    Keys[1] \o <<2 * i, 2 * i + 1, RInt(a), RInt(0),
                 << << <<2 * i, 2 * i + 1, a, 1>> >>, <<>> >> >>

WrittenInputs ==
    UNION {{[i \in 1 .. n |-> IF both[i] THEN MergedAt(i, 1, 1) ELSE LoneAt(i, 1)] :
              both \in [1 .. n -> BOOLEAN]} : n \in 0 .. MaxWritten}

Thresholds == {None} \cup {Some(v) : v \in Grid}

InitWrite ==
    /\ pc = "start"
    /\ merged_peaks \in WrittenInputs
    /\ error = "none"
    /\ \/ localIDRs = None /\ IDRs = None
       \/ \E g \in [1 .. Len(merged_peaks) -> Grid] :
             /\ IDRs = Some(g)
             /\ localIDRs \in {Some(g), Some(Ones(Len(merged_peaks)))}
    /\ max_allowed_idr \in Thresholds
    /\ soft_max_allowed_idr \in Grid
    /\ only_merge_peaks = FALSE
    /\ output_file = <<>>
    /\ log = <<>>
    /\ num_peaks_passing_soft_thresh = 0
    /\ em_invoked = FALSE
    /\ NoMerge /\ NoRanks
    /\ NoArgs

WriteResultsToFile ==
    /\ pc = "start"
    /\ LET w == write_results_to_file(merged_peaks, max_allowed_idr,
                                      soft_max_allowed_idr, localIDRs, IDRs)
       IN /\ output_file' = w.lines
          /\ log' = w.log
          /\ num_peaks_passing_soft_thresh' = w.soft
          /\ error' = w.err
    /\ pc' = "write_results_to_file"
    /\ UNCHANGED <<loadVars, last, mergeVars, merged_peaks, rankVars, idrVars, only_merge_peaks,
                   max_allowed_idr, soft_max_allowed_idr, em_invoked>>

NextWrite == WriteResultsToFile

SpecWrite == InitWrite /\ [][NextWrite]_vars

\* the global IDRs the writer goes by
GivenIDRs == IF IDRs = None THEN Ones(Len(merged_peaks)) ELSE IDRs[1]

GivenLocalIDRs == IF localIDRs = None THEN Ones(Len(merged_peaks)) ELSE localIDRs[1]

PassesHard(i) == max_allowed_idr = None \/ RLe(GivenIDRs[i], max_allowed_idr[1])

RECURSIVE LinesFrom(_)
LinesFrom(i) ==
    IF i > Len(merged_peaks) THEN <<>>
    ELSE (IF PassesHard(i)
          THEN <<OutputLine(merged_peaks[i], GivenIDRs[i], GivenLocalIDRs[i])>>
          ELSE <<>>) \o LinesFrom(i + 1)

\* C4: write_results_to_file completes, its summary count is the number of
\* merged peaks whose global IDR is at most the soft threshold, and it writes
\* a line for exactly the peaks whose global IDR is not above the hard
\* threshold.
C4_WriterCompletesWithSoftCount ==
    (pc = "write_results_to_file" /\ merged_peaks # <<>>) =>
        /\ error = "none"
        /\ num_peaks_passing_soft_thresh =
              Cardinality({i \in 1 .. Len(merged_peaks) :
                              RLe(GivenIDRs[i], soft_max_allowed_idr)})
        /\ output_file = LinesFrom(1)

----------------------------------------------------------------------------
(* main *)

\* the most peaks in the files main is given, beside the scenarios
MaxMainPeaks == 2

\* "Peak files must contain at least 20 peaks post-merge"
MinMergedPeaks == 20

\* idr.DEFAULT_IDR_THRESH, the writer's default hard threshold: "Default:
\* report all peaks"
DEFAULT_IDR_THRESH == None

\* n disjoint peaks, the i-th with signal i
RECURSIVE DisjointPeaks(_)
DisjointPeaks(n) ==
    IF n = 0 THEN <<>>
    ELSE DisjointPeaks(n - 1) \o <<[start |-> 2 * n, stop |-> 2 * n + 1, signal |-> n]>>

\* what fit_model_and_calc_idr returns for n merged peaks: local and global
\* IDRs in [0, 1]; here the same value for every peak
FitOutcomes(n) == {<<[i \in 1 .. n |-> v], [i \in 1 .. n |-> v]>> : v \in Grid}

InitMain ==
    /\ pc = "start"
    /\ merged_peaks = <<>>
    /\ error = "none"
    /\ last = 1
    /\ pk_agg_fn = "sum"
    /\ use_nonoverlapping_peaks = FALSE
    /\ \/ /\ s1_peaks = NoPeaks
          /\ s2_peaks = NoPeaks
          /\ oracle_pks \in {None, Some(NoPeaks)}
       \/ /\ s1_peaks = OnFirstKey(ScenarioS1)
          /\ s2_peaks = OnFirstKey(ScenarioS2)
          /\ oracle_pks = None
       \/ \E n \in {3, MinMergedPeaks - 1, MinMergedPeaks} :
            /\ s1_peaks = OnFirstKey(DisjointPeaks(n))
            /\ s2_peaks = OnFirstKey(DisjointPeaks(n))
            /\ oracle_pks = None
    /\ NoRanks /\ NoIDRs /\ NoWriter
    /\ NoArgs

LoadMainPeak == LoadPeakFrom(PoolSeq, MaxMainPeaks)

\* main(), with the files loaded and plotting off: merge, rank, fit unless
\* only merging or short of peaks, write
Main ==
    /\ pc = "start"
    /\ \E fn \in Aggregators, nonoverlapping \in BOOLEAN :
       LET m == merge_peaks(s1_peaks, s2_peaks, fn, oracle_pks, nonoverlapping)
           s1 == SignalVector(m.pks, 5)
           s2 == SignalVector(m.pks, 6)
       IN
       \E only_merge \in BOOLEAN, max_idr \in Thresholds, soft_idr \in Grid :
       /\ pk_agg_fn' = fn
       /\ use_nonoverlapping_peaks' = nonoverlapping
       /\ only_merge_peaks' = only_merge
       /\ max_allowed_idr' = max_idr
       /\ soft_max_allowed_idr' = soft_idr
       /\ IF m.err # "none"
          THEN /\ error' = m.err
               /\ UNCHANGED <<loadVars, merged_peaks, rankVars, idrVars, output_file, log,
                              num_peaks_passing_soft_thresh, em_invoked>>
          ELSE
          /\ merged_peaks' = m.pks
          /\ \E d1 \in DrawsOf(s1), d2 \in DrawsOf(s2) :
                /\ r1' = RankVector(s1, d1)
                /\ r2' = RankVector(s2, d2)
          /\ IF only_merge
             THEN LET w == write_results_to_file(m.pks, max_idr, soft_idr, None, None)
                  IN /\ localIDRs' = None /\ IDRs' = None
                     /\ em_invoked' = FALSE
                     /\ output_file' = w.lines
                     /\ log' = w.log
                     /\ num_peaks_passing_soft_thresh' = w.soft
                     /\ error' = w.err
             ELSE IF Len(m.pks) < MinMergedPeaks
             THEN LET w == write_results_to_file(m.pks, DEFAULT_IDR_THRESH, soft_idr,
                                                 None, None)
                  IN /\ localIDRs' = None /\ IDRs' = None
                     /\ em_invoked' = FALSE
                     /\ output_file' = w.lines
                     /\ log' = w.log
                     /\ num_peaks_passing_soft_thresh' = w.soft
                     /\ error' = IF w.err # "none" THEN w.err ELSE "ValueError"
             ELSE \E fit \in FitOutcomes(Len(m.pks)) :
                  LET w == write_results_to_file(m.pks, max_idr, soft_idr,
                                                 Some(fit[1]), Some(fit[2]))
                  IN /\ localIDRs' = Some(fit[1]) /\ IDRs' = Some(fit[2])
                     /\ em_invoked' = TRUE
                     /\ output_file' = w.lines
                     /\ log' = w.log
                     /\ num_peaks_passing_soft_thresh' = w.soft
                     /\ error' = w.err
    /\ pc' = "main"
    /\ UNCHANGED <<loadVars, last, s1_peaks, s2_peaks, oracle_pks>>

NextMain == LoadMainPeak \/ Main

SpecMain == InitMain /\ [][NextMain]_vars

\* C3: when fitting is requested and fewer than 20 peaks are merged, main
\* writes a line for every merged peak, then raises the ValueError "Peak
\* files must contain at least 20 peaks post-merge", and never calls
\* fit_model_and_calc_idr.
C3_TooFewPeaksWritesThenRaisesValueError ==
    (/\ pc = "main"
     /\ ~only_merge_peaks
     /\ merged_peaks # <<>>
     /\ Len(merged_peaks) < MinMergedPeaks) =>
        /\ Len(output_file) = Len(merged_peaks)
        /\ error = "ValueError"
        /\ ~em_invoked

----------------------------------------------------------------------------
(* load_bed on the lines of a file, and load_samples.  A line is the list   *)
(* of its columns (line.split()); a column is <<"num", n>> when float() can *)
(* read it and <<"str", s>> when it cannot.                                 *)

\* the most lines of a file
MaxFileLines == 1

Num(n) == <<"num", n>>

Str(t) == <<"str", t>>

\* two narrowPeak lines of overlapping peaks: contig, start, stop, name,
\* score, strand, signal.value, p.value, q.value, summit; -1 is the q.value
\* of a peak that has none
LineA == << Str("chr1"), Num(0), Num(2), Str("pk"), Num(1), Str("+"),
            Num(2), Num(3), Num(4), Num(1) >>

LineB == << Str("chr1"), Num(1), Num(3), Str("pk"), Num(3), Str("+"),
            Num(1), Num(5), Num(-1), Num(0) >>

CommentLine == << Str("#") >>

FileLines == {LineA, LineB, CommentLine}

Files == UNION {[1 .. n -> FileLines] : n \in 0 .. MaxFileLines}

\* line.startswith("#") or line.startswith("track")
IsSkipped(data) == data[1] \in {Str("#"), Str("track")}

\* data[k] of a Python list: k counts from 0, and from the end when negative
ColumnAt(data, k) ==
    IF k >= 0 /\ k < Len(data) THEN [err |-> "none", col |-> data[k + 1]]
    ELSE IF k < 0 /\ -k <= Len(data)
    THEN [err |-> "none", col |-> data[Len(data) + k + 1]]
    ELSE [err |-> "IndexError", col |-> Str("")]

\* float(data[k])
FloatAt(data, k) ==
    LET c == ColumnAt(data, k) IN
    IF c.err # "none" THEN [err |-> c.err, val |-> 0]
    ELSE IF c.col[1] # "num" THEN [err |-> "ValueError", val |-> 0]
    ELSE [err |-> "none", val |-> c.col[2]]

\* load_bed(fp, signal_index), from the i-th line on: [err, grpd]
RECURSIVE LoadLines(_, _, _, _)
LoadLines(fp, index, i, grpd_peaks) ==
    IF i > Len(fp) THEN [err |-> "none", grpd |-> grpd_peaks]
    ELSE LET data == fp[i] IN
         IF IsSkipped(data) THEN LoadLines(fp, index, i + 1, grpd_peaks)
         ELSE LET signal == FloatAt(data, index)
                  chrm   == ColumnAt(data, 0)
                  strand == ColumnAt(data, 5)
                  start  == FloatAt(data, 1)
                  stop   == FloatAt(data, 2)
              IN
              IF signal.err # "none" THEN [err |-> signal.err, grpd |-> grpd_peaks]
              ELSE IF signal.val < 0 THEN [err |-> "ValueError", grpd |-> grpd_peaks]
              ELSE IF chrm.err # "none" THEN [err |-> chrm.err, grpd |-> grpd_peaks]
              ELSE IF strand.err # "none" THEN [err |-> strand.err, grpd |-> grpd_peaks]
              ELSE IF start.err # "none" THEN [err |-> start.err, grpd |-> grpd_peaks]
              ELSE IF stop.err # "none" THEN [err |-> stop.err, grpd |-> grpd_peaks]
              ELSE LoadLines(fp, index, i + 1,
                             AppendPeak(grpd_peaks, <<chrm.col[2], strand.col[2]>>,
                                        [start |-> start.val, stop |-> stop.val,
                                         signal |-> signal.val]))

load_bed(fp, index) == LoadLines(fp, index, 1, NoPeaks)

\* {"score": 4, "signal.value": 6, "p.value": 7, "q.value": 8}[signal_type]:
\* None for a KeyError
SignalColumn(signal_type) ==
    CASE signal_type = "score"        -> Some(4)
      [] signal_type = "signal.value" -> Some(6)
      [] signal_type = "p.value"      -> Some(7)
      [] signal_type = "q.value"      -> Some(8)
      [] OTHER                        -> None

\* int(args.rank) of the strings --rank is given here: None for a ValueError
IntOf(t) ==
    CASE t = "0"  -> Some(0)
      [] t = "4"  -> Some(4)
      [] t = "6"  -> Some(6)
      [] t = "10" -> Some(10)
      [] OTHER    -> None

\* {"sum": sum, "avg": mean, "min": min, "max": max}[args.peak_merge_method]
MergeFn(method) ==
    CASE method = "sum" -> "sum"
      [] method = "avg" -> "mean"
      [] method = "min" -> "min"
      [] method = "max" -> "max"

\* the choice of signal_index: [err, index], index None when no branch binds it
ChooseSignalIndex(a) ==
    IF a.input_file_type \in {"narrowPeak", "broadPeak"}
    THEN LET signal_type == IF a.rank = None THEN "signal.value" ELSE a.rank[1]
             index       == SignalColumn(signal_type)
         IN IF index = None THEN [err |-> "ValueError", index |-> None]
            ELSE [err |-> "none", index |-> index]
    ELSE IF a.input_file_type = "bed"
    THEN IF a.rank = None THEN [err |-> "none", index |-> None]
         ELSE IF a.rank[1] = "score" THEN [err |-> "none", index |-> Some(4)]
         ELSE LET index == IntOf(a.rank[1]) IN
              IF index = None THEN [err |-> "ValueError", index |-> None]
              ELSE [err |-> "none", index |-> index]
    ELSE [err |-> "ValueError", index |-> None]

\* the choice of peak_merge_fn
ChooseMergeFn(a, index) ==
    IF a.peak_merge_method # None THEN MergeFn(a.peak_merge_method[1])
    ELSE IF a.input_file_type = "bed" THEN "sum"
    ELSE IF index[1] \in {4, 6} THEN "sum"
    ELSE "mean"

\* what a call of load_samples leaves when it raises before the files are read
Raised(err, index, fn) ==
    [err |-> err, index |-> index, fn |-> fn, s1 |-> NoPeaks, s2 |-> NoPeaks,
     oracle |-> None, merged |-> <<>>]

\* load_samples(args): the exception or "none", signal_index, peak_merge_fn,
\* f1, f2, oracle_pks and the merged peaks.  Reading signal_index while no
\* branch has bound it is a NameError.
load_samples(a) ==
    LET c == ChooseSignalIndex(a) IN
    IF c.err # "none" THEN Raised(c.err, c.index, "unbound")
    ELSE LET fn == ChooseMergeFn(a, c.index) IN
         IF c.index = None THEN Raised("NameError", None, fn)
         ELSE LET f1 == load_bed(a.samples[1], c.index[1])
                  f2 == load_bed(a.samples[2], c.index[1])
                  pl == IF a.peak_list = None THEN [err |-> "none", grpd |-> NoPeaks]
                        ELSE load_bed(a.peak_list[1], c.index[1])
                  oracle == IF a.peak_list = None THEN None ELSE Some(pl.grpd)
              IN
              IF f1.err # "none" THEN Raised(f1.err, c.index, fn)
              ELSE IF f2.err # "none" THEN Raised(f2.err, c.index, fn)
              ELSE IF pl.err # "none" THEN Raised(pl.err, c.index, fn)
              ELSE LET m == merge_peaks(f1.grpd, f2.grpd, fn, oracle,
                                        a.use_nonoverlapping_peaks)
                   IN [err |-> m.err, index |-> c.index, fn |-> fn, s1 |-> f1.grpd,
                       s2 |-> f2.grpd, oracle |-> oracle, merged |-> m.pks]

\* the values of --input-file-type, --rank and --peak-merge-method tried
FileTypes == {"narrowPeak", "broadPeak", "bed"}

Ranks == {None} \cup {Some(t) : t \in {"score", "signal.value", "q.value", "4", "6",
                                       "0", "10", "idx"}}

MergeMethods == {None, Some("avg"), Some("max")}

InitLoad ==
    /\ pc = "start"
    /\ last = 1
    /\ s1_peaks = NoPeaks /\ s2_peaks = NoPeaks /\ oracle_pks = None
    /\ pk_agg_fn = "unbound"
    /\ use_nonoverlapping_peaks = FALSE
    /\ merged_peaks = <<>>
    /\ error = "none"
    /\ NoRanks /\ NoIDRs /\ NoWriter
    /\ NoArgs

\* args = parse_args()
ParseArgs ==
    /\ pc = "start"
    /\ \E t \in FileTypes, rank \in Ranks, method \in MergeMethods, f1, f2 \in Files,
          pl \in {None} \cup {Some(f) : f \in Files}, nonoverlapping \in BOOLEAN :
          args' = Some([input_file_type |-> t, rank |-> rank,
                        peak_merge_method |-> method, samples |-> <<f1, f2>>,
                        peak_list |-> pl, use_nonoverlapping_peaks |-> nonoverlapping])
    /\ pc' = "parse_args"
    /\ UNCHANGED <<last, mergeVars, merged_peaks, rankVars, idrVars, writeVars,
                   signal_index, error>>

\* merged_peaks = load_samples(args)
LoadSamples ==
    /\ pc = "parse_args"
    /\ LET a == args[1]
           r == load_samples(a)
       IN /\ signal_index' = r.index
          /\ pk_agg_fn' = r.fn
          /\ use_nonoverlapping_peaks' = a.use_nonoverlapping_peaks
          /\ s1_peaks' = r.s1
          /\ s2_peaks' = r.s2
          /\ oracle_pks' = r.oracle
          /\ merged_peaks' = r.merged
          /\ error' = r.err
    /\ pc' = "load_samples"
    /\ UNCHANGED <<last, args, rankVars, idrVars, writeVars>>

NextLoad == ParseArgs \/ LoadSamples

SpecLoad == InitLoad /\ [][NextLoad]_vars

\* the files of args read with the column index: [err, s1, s2, oracle]
ReadWith(a, index) ==
    LET f1 == load_bed(a.samples[1], index)
        f2 == load_bed(a.samples[2], index)
        pl == IF a.peak_list = None THEN [err |-> "none", grpd |-> NoPeaks]
              ELSE load_bed(a.peak_list[1], index)
    IN [ok |-> f1.err = "none" /\ f2.err = "none" /\ pl.err = "none",
        s1 |-> f1.grpd, s2 |-> f2.grpd,
        oracle |-> IF a.peak_list = None THEN None ELSE Some(pl.grpd)]

\* load_samples ranked by the column index and loaded what that column gives
RanksBy(index) ==
    /\ signal_index = Some(index)
    /\ LET f == ReadWith(args[1], index) IN
       f.ok => /\ error = "none"
               /\ s1_peaks = f.s1 /\ s2_peaks = f.s2 /\ oracle_pks = f.oracle

\* C12: for file type bed, load_samples without --rank ranks by column 4 with
\* the aggregator sum, loads both samples and merges them without error; with
\* --rank score it ranks by column 4, and with --rank an integer by the
\* column of that index.
C12_BedRankDefaultsToScore ==
    (pc = "load_samples" /\ args[1].input_file_type = "bed") =>
        LET a == args[1] IN
        /\ a.rank = None =>
              /\ RanksBy(4)
              /\ error = "none"
              /\ a.peak_merge_method = None => pk_agg_fn = "sum"
        /\ a.rank = Some("score") => RanksBy(4)
        /\ (a.rank # None /\ a.rank # Some("score") /\ IntOf(a.rank[1]) # None) =>
              RanksBy(IntOf(a.rank[1])[1])

====
